---- MODULE Spec2Model ----
(***************************************************************************)
(* GPTEmptyIndexQuery (gpt_index/indices/empty/query.py): the query        *)
(* strategy of the empty index.  retrieve returns no nodes, synthesize     *)
(* hands the query string and the configured prompt to the LLM predictor, *)
(* from_args refuses every response mode but GENERATION.                   *)
(*                                                                         *)
(* Two strategy objects live side by side (Ids), so that statements that   *)
(* compare two invocations can be read off one state.  Every method call   *)
(* is one action; what it was given, what it called and what came out is   *)
(* kept in last[i].                                                        *)
(***************************************************************************)
EXTENDS Integers, Sequences, FiniteSets, TLC

\* obj: the constructed strategies; ctor: the arguments each was constructed
\* with; built: each strategy as its construction left it; last: the latest
\* call on each
VARIABLES obj, ctor, built, last

vars == <<obj, ctor, built, last>>

\* ---- bounds
MaxQueries == 2

\* ---- values
Ids == {1, 2}

\* Python values that may stand where another type is expected are records
None == [type |-> "NoneType"]
PyList(items) == [type |-> "list", items |-> items]
Prompt(n) == [type |-> "SimpleInputPrompt", template |-> n]

Omitted == "<omitted>"

DEFAULT_SIMPLE_INPUT_PROMPT == Prompt("{query_str}")

GENERATION == "GENERATION"
ResponseMode == {GENERATION, "REFINE", "TREE_SUMMARIZE"}

CustomPrompts == {Prompt("Question: {query_str}")}
QueryBundle == {[query_str |-> <<"query", n>>] : n \in 1..MaxQueries}
NodeLists == {PyList(<<>>), PyList(<<"node_a">>)}

\* keyword arguments of the constructor: the prompt and the base's flag
Kwargs == [input_prompt : {None} \cup CustomPrompts, streaming : BOOLEAN]

\* what the prediction service does when called: it returns a pair
\* (response, formatted prompt) or raises
ConfigError ==
    [type |-> "ValueError",
     msg |-> "response_mode should not be specified for empty query"]
ServiceErrors == {[type |-> "ValueError", msg |-> "missing template variable"]}
Texts == {"text_a", "text_b"}
Return(v) == [kind |-> "return", value |-> v]
Raise(e) == [kind |-> "raise", exc |-> e]
ServiceOutcomes ==
    {Return(<<[text |-> t], [formatted_prompt |-> t]>>) : t \in Texts}
    \cup {Raise(e) : e \in ServiceErrors}

\* Python truthiness of an Optional[SimpleInputPrompt], and `a or b`
Truthy(v) == v # None
PyOr(a, b) == IF Truthy(a) THEN a ELSE b

\* ---- collaborators
\* Response(response): the source nodes default to the empty list
Response(response) ==
    [type |-> "Response", response |-> response, source_nodes |-> PyList(<<>>)]

\* BaseGPTIndexQuery.__init__: keeps the streaming flag
BaseInit(kwargs) == [_streaming |-> kwargs.streaming]

\* ---- GPTEmptyIndexQuery
\* __init__(input_prompt, kwargs)
InitIgnoresPrompt(input_prompt, kwargs) ==
    [_input_prompt |-> DEFAULT_SIMPLE_INPUT_PROMPT,
     _streaming |-> BaseInit(kwargs)._streaming]

EmptyQueryInit(input_prompt, kwargs) ==
    [_input_prompt |-> PyOr(input_prompt, DEFAULT_SIMPLE_INPUT_PROMPT),
     _streaming |-> BaseInit(kwargs)._streaming]

\* BaseGPTIndexQuery.from_args(response_mode, kwargs): builds cls(kwargs)
BaseFromArgs(response_mode, kwargs) ==
    EmptyQueryInit(kwargs.input_prompt, [streaming |-> kwargs.streaming])

\* the two calls synthesize can make on the llm_predictor
PredictCall(prompt, query_str) ==
    [method |-> "predict", prompt |-> prompt,
     kwargs |-> [query_str |-> query_str]]
PredictWithStreamCall(prompt, is_last, query_str) ==
    [method |-> "predict_with_stream", prompt |-> prompt,
     kwargs |-> [is_last |-> is_last, query_str |-> query_str]]

\* retrieve(query_bundle): what it returns, the service calls it makes and
\* the object it leaves
RetrieveCallsService(self, query_bundle) ==
    [out |-> Return(PyList(<<>>)),
     llm |-> <<PredictCall(self._input_prompt, query_bundle.query_str)>>,
     self |-> self]

RetrieveResult(self, query_bundle) ==
    [out |-> Return(PyList(<<>>)), llm |-> <<>>, self |-> self]

\* synthesize(query_bundle, nodes, additional_source_nodes); svc is what the
\* prediction service does when it is called
SynthesizeSwapped(self, query_bundle, nodes, additional_source_nodes, svc) ==
    [out |-> IF svc.kind = "raise" THEN svc ELSE Return(Response(svc.value[1])),
     llm |-> IF self._streaming
             THEN <<PredictCall(self._input_prompt, query_bundle.query_str)>>
             ELSE <<PredictWithStreamCall(self._input_prompt, TRUE,
                                          query_bundle.query_str)>>,
     self |-> self]

SynthesizeStreamingType(self, query_bundle, nodes, additional_source_nodes, svc) ==
    [out |-> IF svc.kind = "raise" THEN svc
             ELSE IF ~self._streaming THEN Return(Response(svc.value[1]))
             ELSE Return([Response(svc.value[1]) EXCEPT !.type = "StreamingResponse"]),
     llm |-> IF ~self._streaming
             THEN <<PredictCall(self._input_prompt, query_bundle.query_str)>>
             ELSE <<PredictWithStreamCall(self._input_prompt, TRUE,
                                          query_bundle.query_str)>>,
     self |-> self]

SynthesizeKeepsNodes(self, query_bundle, nodes, additional_source_nodes, svc) ==
    [out |-> IF svc.kind = "raise" THEN svc
             ELSE Return([Response(svc.value[1]) EXCEPT !.source_nodes = nodes]),
     llm |-> IF ~self._streaming
             THEN <<PredictCall(self._input_prompt, query_bundle.query_str)>>
             ELSE <<PredictWithStreamCall(self._input_prompt, TRUE,
                                          query_bundle.query_str)>>,
     self |-> self]

SynthesizeAdditionalSwitches(self, query_bundle, nodes, additional_source_nodes, svc) ==
    [out |-> IF svc.kind = "raise" THEN svc ELSE Return(Response(svc.value[1])),
     llm |-> IF ~self._streaming /\ additional_source_nodes = None
             THEN <<PredictCall(self._input_prompt, query_bundle.query_str)>>
             ELSE <<PredictWithStreamCall(self._input_prompt, TRUE,
                                          query_bundle.query_str)>>,
     self |-> self]

SynthesizeFallsBack(self, query_bundle, nodes, additional_source_nodes, svc) ==
    [out |-> IF svc.kind = "raise" THEN svc ELSE Return(Response(svc.value[1])),
     llm |-> IF svc.kind = "raise"
             THEN <<PredictCall(self._input_prompt, query_bundle.query_str),
                    PredictWithStreamCall(self._input_prompt, TRUE,
                                          query_bundle.query_str)>>
             ELSE IF ~self._streaming
             THEN <<PredictCall(self._input_prompt, query_bundle.query_str)>>
             ELSE <<PredictWithStreamCall(self._input_prompt, TRUE,
                                          query_bundle.query_str)>>,
     self |-> self]

SynthesizeTurnsStreaming(self, query_bundle, nodes, additional_source_nodes, svc) ==
    [out |-> IF svc.kind = "raise" THEN svc ELSE Return(Response(svc.value[1])),
     llm |-> IF ~self._streaming
             THEN <<PredictCall(self._input_prompt, query_bundle.query_str)>>
             ELSE <<PredictWithStreamCall(self._input_prompt, TRUE,
                                          query_bundle.query_str)>>,
     self |-> [self EXCEPT !._streaming = TRUE]]

SynthesizeResult(self, query_bundle, nodes, additional_source_nodes, svc) ==
    IF ~self._streaming
    THEN [out |-> IF svc.kind = "raise" THEN svc
                  ELSE Return(Response(svc.value[1])),
          llm |-> <<PredictCall(self._input_prompt, query_bundle.query_str)>>,
          self |-> self]
    ELSE [out |-> IF svc.kind = "raise" THEN svc
                  ELSE Return(Response(svc.value[1])),
          llm |-> <<PredictWithStreamCall(self._input_prompt, TRUE,
                                          query_bundle.query_str)>>,
          self |-> self]

\* from_args(response_mode = GENERATION, kwargs): what it returns or raises
\* and the calls it makes on the base factory
FromArgsNoGuard(response_mode, kwargs) ==
    LET mode == IF response_mode = Omitted THEN GENERATION ELSE response_mode
    IN  [out |-> Return(BaseFromArgs(mode, kwargs)),
         base |-> <<[response_mode |-> mode, kwargs |-> kwargs]>>]

FromArgsDropsKwargs(response_mode, kwargs) ==
    LET mode == IF response_mode = Omitted THEN GENERATION ELSE response_mode
        kw == [input_prompt |-> None, streaming |-> FALSE]
    IN  IF mode # GENERATION
        THEN [out |-> Raise(ConfigError), base |-> <<>>]
        ELSE [out |-> Return(BaseFromArgs(mode, kw)),
              base |-> <<[response_mode |-> mode, kwargs |-> kw]>>]

FromArgsResult(response_mode, kwargs) ==
    LET mode == IF response_mode = Omitted THEN GENERATION ELSE response_mode
    IN  IF mode # GENERATION
        THEN [out |-> Raise(ConfigError), base |-> <<>>]
        ELSE [out |-> Return(BaseFromArgs(mode, kwargs)),
              base |-> <<[response_mode |-> mode, kwargs |-> kwargs]>>]

\* ---- the state machine
NoCall == [op |-> "none"]

Init ==
    /\ obj = <<>>
    /\ ctor = <<>>
    /\ built = <<>>
    /\ last = [i \in Ids |-> NoCall]

\* GPTEmptyIndexQuery(input_prompt = ..., streaming = ...)
Construct(i, kwargs) ==
    /\ i \notin DOMAIN obj
    /\ obj' = (i :> EmptyQueryInit(kwargs.input_prompt,
                                   [streaming |-> kwargs.streaming])) @@ obj
    /\ ctor' = (i :> kwargs) @@ ctor
    /\ built' = (i :> obj'[i]) @@ built
    /\ last' = [last EXCEPT ![i] =
          [op |-> "__init__", args |-> kwargs, llm |-> <<>>, base |-> <<>>,
           out |-> Return(None)]]

\* GPTEmptyIndexQuery.from_args(response_mode = ..., kwargs)
FromArgs(i, response_mode, kwargs) ==
    /\ i \notin DOMAIN obj
    /\ LET r == FromArgsResult(response_mode, kwargs)
       IN  /\ last' = [last EXCEPT ![i] =
                 [op |-> "from_args",
                  args |-> [response_mode |-> response_mode, kwargs |-> kwargs],
                  llm |-> <<>>, base |-> r.base, out |-> r.out]]
           /\ IF r.out.kind = "return"
              THEN /\ obj' = (i :> r.out.value) @@ obj
                   /\ ctor' = (i :> kwargs) @@ ctor
                   /\ built' = (i :> r.out.value) @@ built
              ELSE UNCHANGED <<obj, ctor, built>>

\* obj[i].retrieve(query_bundle)
Retrieve(i, query_bundle) ==
    /\ i \in DOMAIN obj
    /\ LET r == RetrieveResult(obj[i], query_bundle)
       IN  /\ last' = [last EXCEPT ![i] =
                 [op |-> "retrieve", args |-> [query_bundle |-> query_bundle],
                  llm |-> r.llm, base |-> <<>>, out |-> r.out]]
           /\ obj' = [obj EXCEPT ![i] = r.self]
    /\ UNCHANGED <<ctor, built>>

\* obj[i].synthesize(query_bundle, nodes, additional_source_nodes)
Synthesize(i, query_bundle, nodes, additional_source_nodes, svc) ==
    /\ i \in DOMAIN obj
    /\ LET r == SynthesizeResult(obj[i], query_bundle, nodes,
                                 additional_source_nodes, svc)
       IN  /\ last' = [last EXCEPT ![i] =
                 [op |-> "synthesize",
                  args |-> [query_bundle |-> query_bundle, nodes |-> nodes,
                            additional_source_nodes |-> additional_source_nodes],
                  svc |-> svc, llm |-> r.llm, base |-> <<>>, out |-> r.out]]
           /\ obj' = [obj EXCEPT ![i] = r.self]
    /\ UNCHANGED <<ctor, built>>

Next ==
    \/ \E i \in Ids, kwargs \in Kwargs : Construct(i, kwargs)
    \/ \E i \in Ids, response_mode \in ResponseMode \cup {Omitted}, kwargs \in Kwargs :
          FromArgs(i, response_mode, kwargs)
    \/ \E i \in Ids, query_bundle \in QueryBundle : Retrieve(i, query_bundle)
    \/ \E i \in Ids, query_bundle \in QueryBundle, nodes \in NodeLists,
          additional_source_nodes \in NodeLists \cup {None},
          svc \in ServiceOutcomes :
          Synthesize(i, query_bundle, nodes, additional_source_nodes, svc)

Spec == Init /\ [][Next]_vars

\* ---- properties
Synthesized(i) == i \in DOMAIN obj /\ last[i].op = "synthesize"
CalledFromArgs(i) == last[i].op = "from_args"
OtherMode(m) == m \notin {GENERATION, Omitted}

\* C1: from_args with a response mode other than GENERATION raises the
\* configuration error (ValueError) before the base factory is called: no
\* strategy object exists and no prediction-service call has been made.
C1_OtherModeRejected ==
    \A i \in Ids :
        (CalledFromArgs(i) /\ OtherMode(last[i].args.response_mode)) =>
            /\ last[i].out = Raise(ConfigError)
            /\ last[i].base = <<>>
            /\ last[i].llm = <<>>
            /\ i \notin DOMAIN obj

C1_Witness ==
    \E i \in Ids :
        /\ CalledFromArgs(i)
        /\ last[i].args.response_mode = "TREE_SUMMARIZE"
        /\ last[i].out.kind = "raise"

\* C2: a non-streaming strategy's synthesize calls predict exactly once with
\* the configured template and query_str = the bundle's query string, never
\* predict_with_stream, and when predict returns, returns a Response whose
\* text is the text predict returned.
C2_NonStreamingPredictsOnce ==
    \A i \in Ids :
        (Synthesized(i) /\ ~obj[i]._streaming) =>
            /\ Len(last[i].llm) = 1
            /\ last[i].llm[1].method = "predict"
            /\ last[i].llm[1].prompt = obj[i]._input_prompt
            /\ last[i].llm[1].kwargs =
                  [query_str |-> last[i].args.query_bundle.query_str]
            /\ last[i].svc.kind = "return" =>
                  /\ last[i].out.kind = "return"
                  /\ last[i].out.value.type = "Response"
                  /\ last[i].out.value.response = last[i].svc.value[1]

C2_Witness ==
    \E i \in Ids :
        /\ Synthesized(i)
        /\ ~obj[i]._streaming
        /\ last[i].svc.kind = "return"
        /\ last[i].out.kind = "return"

\* C3: a streaming strategy's synthesize calls predict_with_stream exactly
\* once with is_last = True, the configured template and query_str = the
\* bundle's query string, never predict, and when the call returns, returns
\* a plain Response (not a StreamingResponse) wrapping the returned value.
C3_StreamingCallsStreamOnce ==
    \A i \in Ids :
        (Synthesized(i) /\ obj[i]._streaming) =>
            /\ Len(last[i].llm) = 1
            /\ last[i].llm[1].method = "predict_with_stream"
            /\ last[i].llm[1].prompt = obj[i]._input_prompt
            /\ last[i].llm[1].kwargs =
                  [is_last |-> TRUE,
                   query_str |-> last[i].args.query_bundle.query_str]
            /\ last[i].svc.kind = "return" =>
                  /\ last[i].out.kind = "return"
                  /\ last[i].out.value.type = "Response"
                  /\ last[i].out.value.response = last[i].svc.value[1]

C3_Witness ==
    \E i \in Ids :
        /\ Synthesized(i)
        /\ obj[i]._streaming
        /\ last[i].svc.kind = "return"
        /\ last[i].out.kind = "return"

\* C4: whatever was called before, retrieve returns the empty list, raises
\* nothing, calls the prediction service not at all and leaves the template
\* and the streaming flag as they were.
C4_RetrieveEmptyNoEffect ==
    [][\A i \in Ids :
          (i \in DOMAIN obj /\ last'[i].op = "retrieve") =>
              /\ last'[i].out = Return(PyList(<<>>))
              /\ last'[i].llm = <<>>
              /\ obj'[i] = obj[i]]_vars

C4_Witness ==
    \E i, j \in Ids :
        /\ i # j
        /\ i \in DOMAIN obj
        /\ last[i].op = "retrieve"
        /\ last[i].out.value.items = <<>>
        /\ Synthesized(j)

\* C5: the template synthesize passes to the prediction service is the one
\* chosen at construction: the custom template when one was supplied, in the
\* streaming and the non-streaming path, and the default template otherwise.
C5_TemplateFromConstruction ==
    \A i \in Ids :
        Synthesized(i) =>
            /\ Len(last[i].llm) >= 1
            /\ \A k \in 1..Len(last[i].llm) :
                  last[i].llm[k].prompt =
                      IF ctor[i].input_prompt = None
                      THEN DEFAULT_SIMPLE_INPUT_PROMPT
                      ELSE ctor[i].input_prompt

C5_Witness ==
    \E i, j \in Ids :
        /\ Synthesized(i) /\ Synthesized(j)
        /\ ctor[i].input_prompt \in CustomPrompts
        /\ ctor[j].input_prompt \in CustomPrompts
        /\ ctor[i].streaming /\ ~ctor[j].streaming
        /\ last[i].llm[1].prompt = ctor[i].input_prompt
        /\ last[j].llm[1].prompt = ctor[j].input_prompt

\* C6: two synthesize calls on identically configured strategies, with the
\* same query bundle and the same behaviour of the prediction service, make
\* the same service calls and have the same outcome, whatever nodes and
\* additional_source_nodes each was given.
C6_NodesIgnored ==
    \A i, j \in Ids :
        (/\ Synthesized(i) /\ Synthesized(j)
         /\ obj[i] = obj[j]
         /\ last[i].args.query_bundle = last[j].args.query_bundle
         /\ last[i].svc = last[j].svc) =>
            /\ last[i].llm = last[j].llm
            /\ last[i].out = last[j].out

C6_Witness ==
    \E i, j \in Ids :
        /\ Synthesized(i) /\ Synthesized(j)
        /\ obj[i] = obj[j]
        /\ last[i].args.query_bundle = last[j].args.query_bundle
        /\ last[i].svc = last[j].svc
        /\ last[i].svc.kind = "return"
        /\ last[i].args.nodes # last[j].args.nodes
        /\ last[i].args.additional_source_nodes = None
        /\ last[j].args.additional_source_nodes = PyList(<<"node_a">>)
        /\ last[i].out = last[j].out

\* C7: when the prediction-service call of synthesize raises, synthesize
\* raises that same exception, returns no Response, and the service has been
\* called exactly once, by the variant of the configured path only.
C7_ServiceFailurePropagates ==
    \A i \in Ids :
        (Synthesized(i) /\ last[i].svc.kind = "raise") =>
            /\ last[i].out.kind = "raise"
            /\ last[i].out.exc = last[i].svc.exc
            /\ Len(last[i].llm) = 1
            /\ last[i].llm[1].method =
                  IF obj[i]._streaming THEN "predict_with_stream" ELSE "predict"

C7_Witness ==
    \E i, j \in Ids :
        /\ Synthesized(i) /\ Synthesized(j)
        /\ obj[i]._streaming /\ ~obj[j]._streaming
        /\ last[i].svc.kind = "raise" /\ last[j].svc.kind = "raise"
        /\ last[i].out.kind = "raise" /\ last[j].out.kind = "raise"

\* C8: after any calls the template and the streaming flag of a strategy
\* are what its construction left, a synthesize call makes at most one
\* prediction-service call, and two synthesize calls with the same query
\* string, the same construction-time configuration and the same service
\* reply have the same outcome, whatever was called on either strategy before.
C8_NoRetainedState ==
    /\ \A i \in DOMAIN obj :
          /\ obj[i]._input_prompt = built[i]._input_prompt
          /\ obj[i]._streaming = built[i]._streaming
    /\ \A i \in Ids : Synthesized(i) => Len(last[i].llm) <= 1
    /\ \A i, j \in Ids :
          (/\ Synthesized(i) /\ Synthesized(j)
           /\ ctor[i] = ctor[j]
           /\ last[i].args.query_bundle.query_str =
                 last[j].args.query_bundle.query_str
           /\ last[i].svc = last[j].svc) =>
              last[i].out = last[j].out

C8_Witness ==
    \E i, j \in Ids :
        /\ i # j
        /\ Synthesized(i) /\ Synthesized(j)
        /\ last[i].svc.kind = "raise" /\ last[j].svc.kind = "return"
        /\ ctor[i] = ctor[j]
        /\ obj[i] = built[i] /\ obj[j] = built[j]
        /\ Len(last[i].llm) = 1 /\ Len(last[j].llm) = 1

\* C9: every Response synthesize returns has an empty source-node list,
\* whatever nodes and additional_source_nodes were passed.
C9_NoSourceNodes ==
    \A i \in Ids :
        (Synthesized(i) /\ last[i].out.kind = "return") =>
            last[i].out.value.source_nodes = PyList(<<>>)

C9_Witness ==
    \E i, j \in Ids :
        /\ Synthesized(i) /\ Synthesized(j)
        /\ obj[i]._streaming /\ ~obj[j]._streaming
        /\ last[i].out.kind = "return" /\ last[j].out.kind = "return"
        /\ last[i].args.nodes = PyList(<<"node_a">>)
        /\ last[j].args.nodes = PyList(<<"node_a">>)
        /\ last[i].args.additional_source_nodes = PyList(<<"node_a">>)
        /\ last[j].args.additional_source_nodes = PyList(<<"node_a">>)
        /\ last[i].out.value.source_nodes.items = <<>>

\* C10: from_args with response mode GENERATION or with none given raises
\* no configuration error and calls the base factory exactly once, with
\* response_mode = GENERATION and the other keyword arguments as given;
\* retrieve and synthesize never raise the configuration error.
C10_GenerationDelegates ==
    \A i \in Ids :
        /\ (CalledFromArgs(i) /\ ~OtherMode(last[i].args.response_mode)) =>
              /\ last[i].out.kind = "return"
              /\ last[i].base = <<[response_mode |-> GENERATION,
                                   kwargs |-> last[i].args.kwargs]>>
              /\ i \in DOMAIN obj
        /\ last[i].op \in {"retrieve", "synthesize"} =>
              last[i].out # Raise(ConfigError)

C10_Witness ==
    \E i, j \in Ids :
        /\ CalledFromArgs(i) /\ last[i].args.response_mode = Omitted
        /\ last[i].args.kwargs.input_prompt \in CustomPrompts
        /\ last[i].args.kwargs.streaming
        /\ Len(last[i].base) = 1
        /\ Synthesized(j) /\ last[j].out.kind = "raise"

====
